---- MODULE Spec2Model ----
(***************************************************************************)
(* Mnemosyne duplicate detection: the ReAct detection controller           *)
(* (mnemosyne/agents/react.py) with its retrieval tool, its two policy     *)
(* hooks and the verdict schema (mnemosyne/models/schema.py).              *)
(*                                                                         *)
(* Scores are kept in hundredths: 0.9 is 90, 1.0 is 100.                   *)
(* The agent SDK, the reasoning service, the vector store and the          *)
(* re-ranking model are the environment: their answers are drawn with \E   *)
(* from small sets.                                                        *)
(***************************************************************************)
EXTENDS Integers, Sequences, FiniteSets, TLC

VARIABLES
    meta,                 \* module-level _last_tool_metadata (react.py:45)
    pc,                   \* per run: position of search_duplicates / the SDK loop
    iterations,           \* per run: local `iterations` (AssistantMessages seen)
    last_assistant_text,  \* per run: local `last_assistant_text`
    all_candidates,       \* per run: local `all_candidates`
    query,                \* per run: the query of the pending tool call
    outcome,              \* per run: what search_duplicates returned or raised
    causes,               \* per run (history): the ways the run reached its end
    ownMeta,              \* per run (history): metadata this run's last tool call wrote
    hookSaw,              \* per run (history): whose metadata the early-stopping hook last read
    failed,               \* per run (history): a service was unreachable during the run
    hitAt,                \* per run (history): counters when a tool call produced a hit
    steps,                \* per run (history): outcomes produced by the run
    lastCall,             \* per run (history): what the run's last tool call did
    emitted,              \* per run (history): the latest text block the reasoning service sent
    trunc,                \* a call of ReportTruncator.truncate: its input and result
    search,               \* a call of HybridSearcher: its input and result
    store                 \* the collection of the vector store and the last ingest_report call

\* The variables of the detection runs
runVars == <<meta, pc, iterations, last_assistant_text, all_candidates, query,
             outcome, causes, ownMeta, hookSaw, failed, hitAt, steps, lastCall,
             emitted>>

\* The variables of the truncator, of the retrieval pipeline and of the
\* ingestion called alone
fnVars == <<trunc, search, store>>

vars == <<runVars, fnVars>>

----------------------------------------------------------------------------
(* Bounds of the model *)

MaxQueryLen == 6
MaxResults == 2
MaxTextLen == 4
MaxLines == 4
MaxSectionLines == 23

(* Program constants *)

react_max_iterations == 5
MinQueryLen == 5
StopThreshold == 90
DetectThreshold == 90
ScoreMax == 100
RerankCap == 10
ToolLimit == 20

RunIds == {"r1", "r2"}
Ids == {"id1", "id2"}

----------------------------------------------------------------------------
(* JSON / Python values: one record shape for every value so that any two  *)
(* values can be compared.                                                 *)

JNull == [t |-> "null", n |-> 0, s |-> ""]
JBool(b) == [t |-> "bool", n |-> IF b THEN 1 ELSE 0, s |-> ""]
JNum(h) == [t |-> "num", n |-> h, s |-> ""]
JStr(x) == [t |-> "str", n |-> 0, s |-> x]

\* Python truthiness of a value (None, False, 0, "" are falsy).
Truthy(v) ==
    CASE v.t = "null" -> FALSE
      [] v.t = "bool" -> v.n = 1
      [] v.t = "num" -> v.n # 0
      [] OTHER -> v.s # ""

----------------------------------------------------------------------------
(* Stored reports and search results (schema.py SearchResult)              *)

\* The payload of a stored report: the fields the tool reads.
Report(id) == [title |-> "title-" \o id, vulnerability_type |-> "type-" \o id]

SearchResult(id, score) == [report_id |-> id, score |-> score, report |-> Report(id)]

\* Scores the vector store returns for a hit (cosine / fused), in hundredths.
RetrievalScores == {30, 95}
\* Scores the re-ranking model gives a passage, in hundredths.
RerankScores == {90, 95}

Min(a, b) == IF a < b THEN a ELSE b

\* A cut that lets one more element through.
TakeOneMore(seq, k) == SubSeq(seq, 1, Min(k + 1, Len(seq)))

\* seq[:k] of Python, for k >= 0
Take(seq, k) == SubSeq(seq, 1, Min(k, Len(seq)))

RECURSIVE SeqsOfLen(_, _)
\* All sequences over S of length n
SeqsOfLen(S, n) ==
    IF n = 0 THEN {<<>>}
    ELSE {Append(q, x) : q \in SeqsOfLen(S, n - 1), x \in S}

\* All sequences over S of length 0..n
SeqsUpTo(S, n) == UNION {SeqsOfLen(S, k) : k \in 0..n}

\* The ranked lists the vector store can answer a query with: distinct
\* points, ordered by descending score, at most MaxResults of them.
ResultLists ==
    {l \in SeqsUpTo({SearchResult(i, h) : i \in Ids, h \in RetrievalScores}, MaxResults) :
        /\ \A a, b \in 1..Len(l) : a # b => l[a].report_id # l[b].report_id
        /\ \A a \in 1..(Len(l) - 1) : l[a].score >= l[a + 1].score}

\* What the collaborators do during one retrieval call.
\*   dual:     "ok" (the dual-representation path is answered with `points`)
\*             or its first step that raises: the dense embedding of the
\*             query, its sparse embedding, the fused store query, or the
\*             conversion of the returned points
\*   fallback: what the dense-only path of the except branch does: "ok"
\*             (answered with `points`) or its first step that raises: the
\*             dense embedding, the store query (the store is unavailable),
\*             the conversion of the returned points
\*   rerank:   "ok" (the model scored the passages with `rscore`), "load"
\*             (loading the model raised), "score" (scoring raised)
DualSteps == {"dense_embedding", "sparse_embedding", "fused_query", "conversion"}
FallbackSteps == {"dense_embedding", "dense_query", "conversion"}

NoScores == [i \in Ids |-> 0]

\* The retrieval calls of the detection runs: the dual path answers, or the
\* fused query raises and the dense-only query answers, or the store is
\* unavailable; the re-ranking model scores or raises.
SearchEnvs ==
    [dual : {"ok", "fused_query"}, fallback : {"ok"}, points : ResultLists,
     rerank : {"ok"}, rscore : [Ids -> RerankScores]]
    \cup [dual : {"ok", "fused_query"}, fallback : {"ok"}, points : ResultLists,
          rerank : {"score"}, rscore : {NoScores}]
    \cup [dual : {"fused_query"}, fallback : {"dense_query"}, points : {<<>>},
          rerank : {"score"}, rscore : {NoScores}]

\* The store is unavailable: its fused query and its dense-only query raise.
StoreDown(env) == env.dual = "fused_query" /\ env.fallback = "dense_query"

\* HybridSearcher.hybrid_search: the fused query with `limit`; on any
\* exception of the dual path the dense-only query, whose own exceptions
\* leave the function.
hybrid_search(env, limit) ==
    IF env.dual = "ok"
    THEN [raised |-> FALSE, results |-> Take(env.points, limit)]
    ELSE IF env.fallback = "ok"
         THEN [raised |-> FALSE, results |-> Take(env.points, limit)]
         ELSE [raised |-> TRUE, results |-> <<>>]

RECURSIVE InsertDesc(_, _)
\* x put into a list sorted by descending score, after the entries that are
\* not smaller (a stable descending sort, as sorted(..., reverse=True)).
InsertDesc(sorted, x) ==
    IF sorted = <<>> THEN <<x>>
    ELSE IF Head(sorted).score >= x.score
         THEN <<Head(sorted)>> \o InsertDesc(Tail(sorted), x)
         ELSE <<x>> \o sorted

RECURSIVE SortDesc(_)
SortDesc(seq) ==
    IF seq = <<>> THEN <<>>
    ELSE InsertDesc(SortDesc(SubSeq(seq, 1, Len(seq) - 1)), seq[Len(seq)])

\* reranker.rerank: the passages with the model's scores, sorted by
\* descending score.
Rerank(passages, env) ==
    SortDesc([i \in 1..Len(passages) |->
                 [id |-> passages[i].id, score |-> env.rscore[passages[i].id]]])

\* The original SearchResult of a ranked passage: the first candidate with
\* its identifier (search.py:224-227)
OriginalOf(candidates, id) ==
    candidates[CHOOSE i \in 1..Len(candidates) :
                   candidates[i].report_id = id
                   /\ \A j \in 1..(i - 1) : candidates[j].report_id # id]

\* A result that keeps the retrieval score of the candidate.
RetrievalScoreKept(original, ranked_passage) == original.score

\* The score of a re-ranked SearchResult (search.py:232)
RerankedScore(original, ranked_passage) == ranked_passage.score

\* A fallback that returns every candidate.
AllCandidates(candidates, top_k) == candidates

\* The except branch of rerank_results (search.py:244-248)
RerankFallback(candidates, top_k) == Take(candidates, top_k)

RECURSIVE MapBack(_, _, _)
\* The loop of rerank_results over reranked[:top_k], from position i: a
\* passage whose identifier is no candidate's is skipped.
MapBack(candidates, reranked, i) ==
    IF i > Len(reranked) THEN <<>>
    ELSE (IF \E j \in 1..Len(candidates) : candidates[j].report_id = reranked[i].id
          THEN LET original == OriginalOf(candidates, reranked[i].id)
               IN <<[report_id |-> original.report_id,
                     score |-> RerankedScore(original, reranked[i]),
                     report |-> original.report]>>
          ELSE <<>>)
         \o MapBack(candidates, reranked, i + 1)

\* HybridSearcher.rerank_results. An empty reranked_results makes the log
\* line raise IndexError (reranked_results[0]) inside the try.
rerank_results(candidates, top_k, env) ==
    IF candidates = <<>> THEN <<>>
    ELSE IF env.rerank = "ok"
         THEN LET passages == [i \in 1..Len(candidates) |-> [id |-> candidates[i].report_id]]
                  reranked == Rerank(passages, env)
                  reranked_results == MapBack(candidates, Take(reranked, top_k), 1)
              IN IF reranked_results = <<>>
                 THEN RerankFallback(candidates, top_k)
                 ELSE reranked_results
         ELSE RerankFallback(candidates, top_k)

----------------------------------------------------------------------------
(* The metadata slot (react.py:45-64) and the retrieval tool               *)

\* A metadata dict. `keys` tells which dict it is: "empty" is {}, "none" the
\* zero-result dict, "hits" the dict of a call with candidates, "error" the
\* dict the tool's exception handler stores. A missing key reads as its
\* .get() default: top_score 0.0, top_report_id None, candidates [].
EmptyMeta ==
    [keys |-> "empty", result_count |-> 0, top_score |-> 0,
     top_report_id |-> JNull, candidates |-> <<>>]

NoResultMeta ==
    [keys |-> "none", result_count |-> 0, top_score |-> 0,
     top_report_id |-> JNull, candidates |-> <<>>]

ErrorMeta ==
    [keys |-> "error", result_count |-> 0, top_score |-> 0,
     top_report_id |-> JNull, candidates |-> <<>>]

Candidate(r) ==
    [report_id |-> r.report_id, score |-> r.score,
     title |-> r.report.title, type |-> r.report.vulnerability_type]

HitMeta(reranked) ==
    [keys |-> "hits", result_count |-> Len(reranked),
     top_score |-> reranked[1].score,
     top_report_id |-> JStr(reranked[1].report_id),
     candidates |-> [i \in 1..Len(reranked) |-> Candidate(reranked[i])]]

\* The except branch of the tool: the error is turned into an is_error
\* observation for the reasoning service.
ToolOnException ==
    [metadata |-> ErrorMeta, content |-> "Error during search", is_error |-> TRUE,
     raised |-> FALSE]

\* A tool whose zero-result branch leaves the metadata slot as it is.
ZeroResultNotStored(env) ==
    LET found == hybrid_search(env, ToolLimit)
    IN IF found.raised THEN ToolOnException
       ELSE IF found.results = <<>>
            THEN [metadata |-> meta, content |-> "No results found.",
                  is_error |-> FALSE, raised |-> FALSE]
            ELSE [metadata |-> HitMeta(rerank_results(found.results,
                                           Min(RerankCap, Len(found.results)), env)),
                  content |-> "Found candidates", is_error |-> FALSE, raised |-> FALSE]

\* hybrid_search_tool: the metadata it stores and whether its answer is an
\* error observation; `raised` tells whether an exception leaves the tool.
hybrid_search_tool(env) ==
    LET found == hybrid_search(env, ToolLimit)
    IN IF found.raised THEN ToolOnException
       ELSE LET results == found.results
                reranked == IF results # <<>>
                            THEN rerank_results(results, Min(RerankCap, Len(results)), env)
                            ELSE <<>>
            IN IF reranked = <<>>
               THEN [metadata |-> NoResultMeta, content |-> "No results found.",
                     is_error |-> FALSE, raised |-> FALSE]
               ELSE [metadata |-> HitMeta(reranked), content |-> "Found candidates",
                     is_error |-> FALSE, raised |-> FALSE]

\* No tool call made by the run yet
NoToolCall ==
    [made |-> FALSE, error |-> FALSE, found |-> 0, model |-> "none", scores |-> {},
     content |-> ""]

\* What a tool call did: whether hybrid_search raised, the number of
\* candidates it returned, what the re-ranking model did ("none": it was not called on), the
\* scores the model produced, and the observation returned to the
\* reasoning service.
ToolCallSaw(env, res) ==
    LET found == hybrid_search(env, ToolLimit)
        called == ~found.raised /\ found.results # <<>>
    IN [made |-> TRUE,
        error |-> found.raised,
        found |-> Len(found.results),
        model |-> IF called THEN env.rerank ELSE "none",
        scores |-> IF called /\ env.rerank = "ok"
                   THEN {env.rscore[found.results[i].report_id] :
                            i \in 1..Len(found.results)}
                   ELSE {},
        content |-> res.content]

----------------------------------------------------------------------------
(* Queries and the pre-call validation hook (react.py:169-207)             *)

Space == " "

RECURSIVE Repeat(_, _)
Repeat(c, n) == IF n = 0 THEN <<>> ELSE <<c>> \o Repeat(c, n - 1)

\* Queries the reasoning service may ask for, of at most MaxQueryLen
\* characters: l leading blanks, a word of n characters, t trailing blanks,
\* with the word lengths around the limit of the validation hook; and a
\* word with an inner blank.
Queries ==
    {q \in {Repeat(Space, l) \o Repeat("a", n) \o Repeat(Space, t) :
                l \in 0..1, n \in {0, MinQueryLen - 1, MinQueryLen}, t \in 0..1} :
        Len(q) <= MaxQueryLen}
    \cup {<<"a", Space>> \o Repeat("a", n) : n \in {2, 3}}

RECURSIVE LStrip(_)
LStrip(q) == IF q # <<>> /\ Head(q) = Space THEN LStrip(Tail(q)) ELSE q

RECURSIVE RStrip(_)
RStrip(q) ==
    IF q # <<>> /\ q[Len(q)] = Space THEN RStrip(SubSeq(q, 1, Len(q) - 1)) ELSE q

\* str.strip()
Strip(q) == RStrip(LStrip(q))

\* A hook that measures the query as given, blanks included.
UntrimmedLength(q) == Len(q)

\* The length the hook compares with 5.
ValidatedLength(q) == Len(Strip(q))

\* query_validation_hook: TRUE when the call is denied.
query_validation_hook(q) == ValidatedLength(q) < MinQueryLen

----------------------------------------------------------------------------
(* The post-call early-stopping hook (react.py:210-286)                    *)

\* A hook whose threshold is 0.95.
EarlyStoppingHookAbove95(m) == m.top_score > 95 /\ Truthy(m.top_report_id)

\* early_stopping_hook: TRUE when it answers continue_ = False.
early_stopping_hook(m) == m.top_score > StopThreshold /\ Truthy(m.top_report_id)

----------------------------------------------------------------------------
(* Texts of the reasoning service and _parse_json_from_text                *)

\* A text is a sequence of tokens: "{", "}", a stretch of prose, or one
\* "key": value member of a JSON object.
Tok(k, v) == [k |-> k, v |-> v]
LBrace == Tok("{", JNull)
RBrace == Tok("}", JNull)
Prose == Tok("prose", JNull)

Members ==
    {Tok("is_duplicate", v) : v \in {JBool(TRUE), JBool(FALSE), JNull}}
    \cup {Tok("similarity_score", v) : v \in {JNum(80), JNum(150)}}
    \cup {Tok("matched_report_id", v) : v \in {JStr("id1")}}
    \cup {Tok("status", v) : v \in {JStr("duplicate"), JStr("maybe")}}
    \cup {Tok("reasoning", JStr("why"))}

Tokens == {LBrace, RBrace, Prose} \cup Members

IsIn(seq, x) == \E i \in 1..Len(seq) : seq[i] = x

\* str.find: 0-based index of the first occurrence, -1 when there is none
Find(text, x) ==
    IF IsIn(text, x)
    THEN (CHOOSE i \in 1..Len(text) :
              text[i] = x /\ \A j \in 1..(i - 1) : text[j] # x) - 1
    ELSE -1

\* str.rfind: 0-based index of the last occurrence, -1 when there is none
RFind(text, x) ==
    IF IsIn(text, x)
    THEN (CHOOSE i \in 1..Len(text) :
              text[i] = x /\ \A j \in (i + 1)..Len(text) : text[j] # x) - 1
    ELSE -1

\* text[a:b] of Python, 0-based, for 0 <= a
Slice(text, a, b) == SubSeq(text, a + 1, Min(b, Len(text)))

\* json.loads on a span: an object is "{", members, "}". Anything else
\* raises JSONDecodeError.
JsonValid(span) ==
    /\ Len(span) >= 2
    /\ span[1] = LBrace
    /\ span[Len(span)] = RBrace
    /\ \A i \in 2..(Len(span) - 1) : span[i] \in Members

\* The dict json.loads builds: the members in order (a later member of the
\* same key wins).
JsonMembers(span) == SubSeq(span, 2, Len(span) - 1)

NoDict == [found |-> FALSE, members |-> <<>>]

\* _parse_json_from_text: None (NoDict) or the parsed dict.
parse_json_from_text(text) ==
    LET json_start == Find(text, LBrace)
        json_end == RFind(text, RBrace) + 1
    IN IF json_start >= 0 /\ json_end > json_start
       THEN LET json_str == Slice(text, json_start, json_end)
            IN IF JsonValid(json_str)
               THEN [found |-> TRUE, members |-> JsonMembers(json_str)]
               ELSE NoDict
       ELSE NoDict

HasKey(d, key) == \E i \in 1..Len(d.members) : d.members[i].k = key

\* dict.get(key, default)
Get(d, key, default) ==
    IF HasKey(d, key)
    THEN d.members[CHOOSE i \in 1..Len(d.members) :
                       d.members[i].k = key
                       /\ \A j \in (i + 1)..Len(d.members) : d.members[j].k # key].v
    ELSE default

\* `if parsed:` a dict is truthy when it is not empty
DictTruthy(d) == d.found /\ d.members # <<>>

----------------------------------------------------------------------------
(* DuplicateDetectionResult (schema.py:127-148)                            *)

\* The field constraints of the schema: a bool, a float with ge=0.0 and
\* le=1.0, an optional str, a str. A value outside them makes the
\* constructor raise ValidationError.
ScoreInRange(v) == v.t = "num" /\ v.n >= 0 /\ v.n <= ScoreMax

SchemaAccepts(is_duplicate, similarity_score, matched_report_id, status) ==
    /\ is_duplicate.t = "bool"
    /\ ScoreInRange(similarity_score)
    /\ matched_report_id.t \in {"str", "null"}
    /\ status.t = "str"

\* What search_duplicates hands back: kind "verdict" with the fields of the
\* result, or kind "raised". `path` records the branch that built it.
Raised(path) ==
    [kind |-> "raised", path |-> path, is_duplicate |-> FALSE, similarity_score |-> 0,
     matched_report_id |-> JNull, status |-> "", candidates |-> <<>>]

NoOutcome ==
    [kind |-> "none", path |-> "", is_duplicate |-> FALSE, similarity_score |-> 0,
     matched_report_id |-> JNull, status |-> "", candidates |-> <<>>]

DuplicateDetectionResult(path, is_duplicate, similarity_score, matched_report_id, status, candidates) ==
    IF SchemaAccepts(is_duplicate, similarity_score, matched_report_id, status)
    THEN [kind |-> "verdict", path |-> path, is_duplicate |-> is_duplicate.n = 1,
          similarity_score |-> similarity_score.n,
          matched_report_id |-> matched_report_id, status |-> status.s,
          candidates |-> candidates]
    ELSE Raised(path)

\* The status of _create_fallback_result
FallbackStatus == "new"

\* _create_fallback_result
create_fallback_result ==
    DuplicateDetectionResult("fallback", JBool(FALSE), JNum(0), JNull,
                             JStr(FallbackStatus), <<>>)

\* The test of react.py:426 on the metadata slot
DetectedEarlyStop(m) == m.top_score > DetectThreshold /\ Truthy(m.top_report_id)

\* The ResultMessage branch of search_duplicates (react.py:415-452)
OnResultMessage(metadata, text, candidates) ==
    IF DetectedEarlyStop(metadata)
    THEN DuplicateDetectionResult("early", JBool(TRUE), JNum(metadata.top_score),
                                  metadata.top_report_id, JStr("duplicate"),
                                  metadata.candidates)
    ELSE LET parsed == parse_json_from_text(text)
         IN IF DictTruthy(parsed)
            THEN DuplicateDetectionResult("parsed",
                     Get(parsed, "is_duplicate", JBool(FALSE)),
                     Get(parsed, "similarity_score", JNum(0)),
                     Get(parsed, "matched_report_id", JNull),
                     Get(parsed, "status", JStr("new")),
                     candidates)
            ELSE create_fallback_result

----------------------------------------------------------------------------
(* The detection run: search_duplicates driven by the agent SDK            *)

\* A cap that lets one more turn through.
MaxTurnsPlusOne == react_max_iterations + 1

\* max_turns handed to the SDK (react.py:343)
max_turns == react_max_iterations

\* A handler that logs the exception and lets the loop go on.
PcAfterSwallow == "reasoning"

\* Where a run is once an exception has left search_duplicates (the handler
\* logs and re-raises).
PcAfterRaise == "done"

NotWritten ==
    [keys |-> "unwritten", result_count |-> 0, top_score |-> 0,
     top_report_id |-> JNull, candidates |-> <<>>]

NoHit == [hit |-> FALSE, iterations |-> 0, score |-> 0, id |-> ""]

\* Texts the reasoning service answers with in the run specifications.
TextProse == <<Prose>>
TextBadJson == <<Prose, LBrace, Prose, RBrace>>
TextDuplicate ==
    <<Prose, LBrace, Tok("is_duplicate", JBool(TRUE)), Tok("similarity_score", JNum(80)),
      Tok("matched_report_id", JStr("id1")), Tok("status", JStr("duplicate")), RBrace>>
TextMaybe == <<LBrace, Tok("status", JStr("maybe")), RBrace>>
TextOverOne == <<LBrace, Tok("similarity_score", JNum(150)), RBrace>>

AgentTexts ==
    {TextProse, TextBadJson, TextDuplicate, TextMaybe, TextOverOne}

\* The runs of the sequential specification: one run after the other.
SeqRuns == {"r1"}

\* No call of the truncator / of the retrieval pipeline is in progress.
NoTrunc == [pc |-> "none"]
NoSearch == [pc |-> "none"]
NoStore == [pc |-> "none"]

\* No text block has been sent in the run.
NoTextBlock == [any |-> FALSE, text |-> <<>>]

\* No run of search_duplicates has been started.
RunIdle ==
    /\ meta = EmptyMeta
    /\ pc = [r \in RunIds |-> "idle"]
    /\ iterations = [r \in RunIds |-> 0]
    /\ last_assistant_text = [r \in RunIds |-> <<>>]
    /\ all_candidates = [r \in RunIds |-> <<>>]
    /\ query = [r \in RunIds |-> <<>>]
    /\ outcome = [r \in RunIds |-> NoOutcome]
    /\ causes = [r \in RunIds |-> {}]
    /\ ownMeta = [r \in RunIds |-> NotWritten]
    /\ hookSaw = [r \in RunIds |-> "none"]
    /\ failed = [r \in RunIds |-> FALSE]
    /\ hitAt = [r \in RunIds |-> NoHit]
    /\ steps = [r \in RunIds |-> 0]
    /\ lastCall = [r \in RunIds |-> NoToolCall]
    /\ emitted = [r \in RunIds |-> NoTextBlock]

Init ==
    /\ RunIdle
    /\ trunc = NoTrunc
    /\ search = NoSearch
    /\ store = NoStore

\* search_duplicates is called (react.py:379-396): the locals are set, the
\* client is opened and the prompt sent. The metadata slot is not touched.
Start(r) ==
    /\ pc[r] \in {"idle", "done"}
    /\ pc' = [pc EXCEPT ![r] = "reasoning"]
    /\ iterations' = [iterations EXCEPT ![r] = 0]
    /\ last_assistant_text' = [last_assistant_text EXCEPT ![r] = <<>>]
    /\ all_candidates' = [all_candidates EXCEPT ![r] = <<>>]
    /\ query' = [query EXCEPT ![r] = <<>>]
    /\ outcome' = [outcome EXCEPT ![r] = NoOutcome]
    /\ causes' = [causes EXCEPT ![r] = {}]
    /\ ownMeta' = [ownMeta EXCEPT ![r] = NotWritten]
    /\ hookSaw' = [hookSaw EXCEPT ![r] = "none"]
    /\ failed' = [failed EXCEPT ![r] = FALSE]
    /\ hitAt' = [hitAt EXCEPT ![r] = NoHit]
    /\ steps' = [steps EXCEPT ![r] = 0]
    /\ lastCall' = [lastCall EXCEPT ![r] = NoToolCall]
    /\ emitted' = [emitted EXCEPT ![r] = NoTextBlock]
    /\ UNCHANGED <<meta, fnVars>>

\* The SDK starts the next turn, or ends the conversation at max_turns.
NextTurn(r) ==
    IF iterations[r] >= max_turns
    THEN /\ pc' = [pc EXCEPT ![r] = "result"]
         /\ causes' = [causes EXCEPT ![r] = @ \cup {"cap"}]
    ELSE /\ pc' = [pc EXCEPT ![r] = "reasoning"]
         /\ UNCHANGED causes

\* The contents of an AssistantMessage: no, one or two text blocks, then an
\* optional hybrid_search tool use.
MessageContents(texts, queries) ==
    LET text_blocks == {<<>>}
                         \cup {<<[kind |-> "text", text |-> t]>> : t \in texts}
                         \cup {<<[kind |-> "text", text |-> t],
                                 [kind |-> "text", text |-> u]>> : t \in texts, u \in texts}
        tool_uses == {<<>>} \cup {<<[kind |-> "tool_use", query |-> q]>> : q \in queries}
    IN {t \o u : t \in text_blocks, u \in tool_uses}

\* A loop that starts from the empty string at every message.
ExtractTextOfMessage(content, last_text) ==
    LET text_blocks == SelectSeq(content, LAMBDA block : block.kind = "text")
    IN IF text_blocks = <<>> THEN <<>> ELSE text_blocks[Len(text_blocks)].text

RECURSIVE ExtractLastText(_, _)
\* The loop over message.content (react.py:404-413): every TextBlock
\* overwrites last_assistant_text, the other blocks leave it alone.
ExtractLastText(content, last_text) ==
    IF content = <<>> THEN last_text
    ELSE ExtractLastText(Tail(content),
                         IF Head(content).kind = "text" THEN Head(content).text
                         ELSE last_text)

\* The latest text block the reasoning service has sent, once `content` has
\* arrived.
LatestTextBlock(content, before) ==
    LET at == {i \in 1..Len(content) : content[i].kind = "text"}
    IN IF at = {} THEN before
       ELSE [any |-> TRUE,
             text |-> content[CHOOSE i \in at : \A j \in at : j <= i].text]

\* An AssistantMessage arrives (react.py:399-413): one reasoning iteration.
\* Its text blocks are scanned; a message without a tool use ends the
\* conversation.
AssistantMessage(r, texts, queries) ==
    /\ pc[r] = "reasoning"
    /\ iterations[r] < max_turns
    /\ iterations' = [iterations EXCEPT ![r] = @ + 1]
    /\ \E content \in MessageContents(texts, queries) :
          LET tool_uses == SelectSeq(content, LAMBDA block : block.kind = "tool_use")
          IN /\ last_assistant_text' =
                    [last_assistant_text EXCEPT ![r] = ExtractLastText(content, @)]
             /\ emitted' = [emitted EXCEPT ![r] = LatestTextBlock(content, @)]
             /\ IF tool_uses # <<>>
                THEN /\ pc' = [pc EXCEPT ![r] = "pretool"]
                     /\ query' = [query EXCEPT ![r] = tool_uses[1].query]
                     /\ UNCHANGED causes
                ELSE /\ pc' = [pc EXCEPT ![r] = "result"]
                     /\ causes' = [causes EXCEPT ![r] = @ \cup {"final"}]
                     /\ UNCHANGED query
    /\ UNCHANGED <<meta, all_candidates, outcome, ownMeta, hookSaw, failed, hitAt, steps,
                   lastCall, fnVars>>

\* The reasoning service is unreachable: the SDK call raises inside the try
\* of search_duplicates, whose handler logs and re-raises (react.py:456-458).
ServiceError(r) ==
    /\ pc[r] = "reasoning"
    /\ pc' = [pc EXCEPT ![r] = PcAfterRaise]
    /\ outcome' = [outcome EXCEPT ![r] = Raised("service")]
    /\ causes' = [causes EXCEPT ![r] = @ \cup {"error"}]
    /\ failed' = [failed EXCEPT ![r] = TRUE]
    /\ steps' = [steps EXCEPT ![r] = @ + 1]
    /\ UNCHANGED <<meta, iterations, last_assistant_text, all_candidates, query,
                   ownMeta, hookSaw, hitAt, lastCall, emitted, fnVars>>

\* The PreToolUse hook runs on the pending tool call (react.py:346-352).
\* A denied call is not executed; its reason goes back to the reasoning
\* service and the conversation goes on.
PreToolUse(r) ==
    /\ pc[r] = "pretool"
    /\ IF query_validation_hook(query[r])
       THEN /\ NextTurn(r)
            /\ query' = [query EXCEPT ![r] = <<>>]
       ELSE /\ pc' = [pc EXCEPT ![r] = "tool"]
            /\ UNCHANGED <<query, causes>>
    /\ UNCHANGED <<meta, iterations, last_assistant_text, all_candidates, outcome,
                   ownMeta, hookSaw, failed, hitAt, steps, lastCall, emitted, fnVars>>

\* The hit of a retrieval call: a re-ranked candidate list whose first score
\* is above 0.9 and whose first identifier is not empty.
IsHit(m) ==
    m.keys = "hits" /\ m.top_score > 90 /\ m.top_report_id.t = "str"
    /\ m.top_report_id.s # ""

\* hybrid_search_tool executes (react.py:77-161) and stores its metadata.
ToolCall(r, envs) ==
    /\ pc[r] = "tool"
    /\ \E env \in envs :
          LET res == hybrid_search_tool(env)
          IN /\ meta' = res.metadata
             /\ ownMeta' = [ownMeta EXCEPT ![r] = res.metadata]
             /\ lastCall' = [lastCall EXCEPT ![r] = ToolCallSaw(env, res)]
             /\ failed' = [failed EXCEPT ![r] = @ \/ StoreDown(env)]
             /\ hitAt' = IF IsHit(res.metadata)
                         THEN [hitAt EXCEPT ![r] =
                                  [hit |-> TRUE, iterations |-> iterations[r],
                                   score |-> res.metadata.top_score,
                                   id |-> res.metadata.top_report_id.s]]
                         ELSE hitAt
             /\ IF res.raised
                THEN /\ pc' = [pc EXCEPT ![r] = PcAfterRaise]
                     /\ outcome' = [outcome EXCEPT ![r] = Raised("tool")]
                     /\ causes' = [causes EXCEPT ![r] = @ \cup {"error"}]
                     /\ steps' = [steps EXCEPT ![r] = @ + 1]
                ELSE /\ pc' = [pc EXCEPT ![r] = "posthook"]
                     /\ UNCHANGED <<outcome, causes, steps>>
    /\ query' = [query EXCEPT ![r] = <<>>]
    /\ UNCHANGED <<iterations, last_assistant_text, all_candidates, hookSaw, emitted,
                   fnVars>>

\* The PostToolUse hook runs after the tool (react.py:353-358): it reads the
\* metadata slot and may stop the conversation.
PostToolUse(r) ==
    /\ pc[r] = "posthook"
    /\ hookSaw' = [hookSaw EXCEPT ![r] = IF meta = ownMeta[r] THEN "own" ELSE "other"]
    /\ IF early_stopping_hook(meta)
       THEN /\ pc' = [pc EXCEPT ![r] = "result"]
            /\ causes' = [causes EXCEPT ![r] = @ \cup {"early"}]
       ELSE NextTurn(r)
    /\ UNCHANGED <<meta, iterations, last_assistant_text, all_candidates, query,
                   outcome, ownMeta, failed, hitAt, steps, lastCall, emitted, fnVars>>

\* The ResultMessage arrives (react.py:415-452): the verdict is built and
\* returned, or its constructor raises.
ResultMessage(r) ==
    /\ pc[r] = "result"
    /\ outcome' = [outcome EXCEPT ![r] =
                      OnResultMessage(meta, last_assistant_text[r], all_candidates[r])]
    /\ pc' = [pc EXCEPT ![r] = "done"]
    /\ steps' = [steps EXCEPT ![r] = @ + 1]
    /\ UNCHANGED <<meta, iterations, last_assistant_text, all_candidates, query,
                   causes, ownMeta, hookSaw, failed, hitAt, lastCall, emitted, fnVars>>

\* The steps of a run after its start.
Step(r, texts, queries, envs) ==
    \/ AssistantMessage(r, texts, queries)
    \/ ServiceError(r)
    \/ PreToolUse(r)
    \/ ToolCall(r, envs)
    \/ PostToolUse(r)
    \/ ResultMessage(r)

\* Detection runs one after the other in one process (detect_duplicates).
Next ==
    \E r \in SeqRuns :
        \/ Start(r)
        \/ Step(r, AgentTexts, Queries, SearchEnvs)

Spec == Init /\ [][Next]_vars

\* Fewer inputs, for the specifications below: one text, a query on each
\* side of the validation limit, and a retrieval call that finds a match or
\* finds nothing.
ConcTexts == {TextDuplicate}
ConcQueries == {Repeat("a", MinQueryLen - 1), Repeat("a", MinQueryLen)}
ConcEnvs ==
    {e \in SearchEnvs :
        \/ e.dual = "ok" /\ e.points = <<>> /\ e.rerank # "ok"
        \/ e.dual = "ok" /\ e.points = <<SearchResult("id1", 95)>> /\ e.rerank # "ok"}

FairEnvs == ConcEnvs \cup {e \in SearchEnvs : StoreDown(e)}

\* Runs one after the other where every call of a collaborator returns: a
\* started run keeps taking its steps.
FairNext ==
    \E r \in SeqRuns :
        \/ Start(r)
        \/ Step(r, ConcTexts, ConcQueries, FairEnvs)

FairSpec ==
    /\ Init
    /\ [][FairNext]_vars
    /\ \A r \in SeqRuns : WF_vars(Step(r, ConcTexts, ConcQueries, FairEnvs))

\* Two runs of search_duplicates interleaved on one event loop (the method
\* is a coroutine: it yields at every await of the SDK). Each run is started
\* once.
ConcNext ==
    \E r \in RunIds :
        \/ pc[r] = "idle" /\ Start(r)
        \/ Step(r, ConcTexts, ConcQueries, ConcEnvs)

ConcSpec == Init /\ [][ConcNext]_vars

\* Final-answer handling alone: a fresh process whose run has received its
\* last text and waits for the ResultMessage, for every text of at most
\* MaxTextLen tokens.
\* The texts of n tokens.
TextsOfLen(n) == [1..n -> Tokens]

ParseInit ==
    /\ trunc = NoTrunc
    /\ search = NoSearch
    /\ store = NoStore
    /\ meta = EmptyMeta
    /\ pc = [r \in RunIds |-> IF r \in SeqRuns THEN "result" ELSE "idle"]
    /\ iterations = [r \in RunIds |-> IF r \in SeqRuns THEN 1 ELSE 0]
    /\ \E n \in 0..MaxTextLen : \E text \in TextsOfLen(n) :
          last_assistant_text = [r \in RunIds |-> IF r \in SeqRuns THEN text ELSE <<>>]
    /\ all_candidates = [r \in RunIds |-> <<>>]
    /\ query = [r \in RunIds |-> <<>>]
    /\ outcome = [r \in RunIds |-> NoOutcome]
    /\ causes = [r \in RunIds |-> IF r \in SeqRuns THEN {"final"} ELSE {}]
    /\ ownMeta = [r \in RunIds |-> NotWritten]
    /\ hookSaw = [r \in RunIds |-> "none"]
    /\ failed = [r \in RunIds |-> FALSE]
    /\ hitAt = [r \in RunIds |-> NoHit]
    /\ steps = [r \in RunIds |-> 0]
    /\ lastCall = [r \in RunIds |-> NoToolCall]
    /\ emitted = [r \in RunIds |->
                     IF r \in SeqRuns THEN [any |-> TRUE, text |-> last_assistant_text[r]]
                     ELSE NoTextBlock]

ParseNext == \E r \in SeqRuns : ResultMessage(r)

ParseSpec == ParseInit /\ [][ParseNext]_vars

----------------------------------------------------------------------------
(* The truncator (mnemosyne/core/truncation.py)                            *)
(*                                                                         *)
(* A text is the list of its lines, as text.split("\n") gives them: never  *)
(* empty, the empty text is one empty line. A line is kept as its kind and *)
(* its number of characters. The kind is the name of the first             *)
(* SECTION_PATTERNS entry the stripped line matches, "fence" for a line    *)
(* that is ``` and "text" for any other line (one without ```).            *)

CharsPerToken == 4
MinKeepLines == 10
PlaceholderLen == 18
MarkerBaseLen == 26
DefaultMaxTokens == 180000
DefaultTokenBuffer == 20000

\* n: the index of a placeholder, the count of a marker, the line number of
\* a line of a section handed to truncate_section alone, 0 otherwise
Line(kind, len) == [kind |-> kind, len |-> len, n |-> 0]

EmptyLine == Line("text", 0)

\* SECTION_PATTERNS: section name -> (priority, preserve_complete)
SECTION_PATTERNS ==
    {[name |-> "Title/Summary", priority |-> 1, preserve |-> TRUE],
     [name |-> "Reproduction Steps", priority |-> 1, preserve |-> TRUE],
     [name |-> "Technical Artifacts", priority |-> 1, preserve |-> TRUE],
     [name |-> "Impact/Severity", priority |-> 2, preserve |-> FALSE],
     [name |-> "Remediation", priority |-> 2, preserve |-> FALSE],
     [name |-> "Technologies", priority |-> 2, preserve |-> FALSE],
     [name |-> "Background", priority |-> 3, preserve |-> FALSE],
     [name |-> "Timeline", priority |-> 3, preserve |-> FALSE],
     [name |-> "Logs", priority |-> 4, preserve |-> FALSE],
     [name |-> "Media", priority |-> 4, preserve |-> FALSE],
     [name |-> "Metadata", priority |-> 4, preserve |-> FALSE]}

\* The lines of the model's texts: "#code" and "#title" (priority 1),
\* "#log" (priority 4), "```", an empty line and a line of 8 characters.
Lines ==
    {Line("Technical Artifacts", 5), Line("Title/Summary", 6), Line("Logs", 4),
     Line("fence", 3), EmptyLine, Line("text", 8)}

\* The texts of n lines.
TextsOfLines(n) == [1..n -> Lines]

RECURSIVE Chars(_)
\* len(text): the characters of the lines and the "\n" between them
Chars(lines) ==
    IF lines = <<>> THEN 0
    ELSE IF Len(lines) = 1 THEN lines[1].len
    ELSE lines[1].len + 1 + Chars(Tail(lines))

\* estimate_tokens
estimate_tokens(text) == Chars(text) \div CharsPerToken

Section(info, content) ==
    [name |-> info.name, content |-> content, priority |-> info.priority,
     preserve_complete |-> info.preserve]

IsHeader(line) == \E p \in SECTION_PATTERNS : p.name = line.kind

RECURSIVE IdentifyHeadedSections(_)
\* A segmentation without the default section: the lines before the first
\* header belong to no section.
IdentifyHeadedSections(lines) ==
    IF lines = <<>> THEN <<>>
    ELSE LET sections == IdentifyHeadedSections(SubSeq(lines, 1, Len(lines) - 1))
             line == lines[Len(lines)]
         IN IF IsHeader(line)
            THEN Append(sections,
                        Section(CHOOSE p \in SECTION_PATTERNS : p.name = line.kind,
                                <<line>>))
            ELSE IF sections = <<>>
                 THEN <<>>
                 ELSE [sections EXCEPT ![Len(sections)].content = Append(@, line)]

RECURSIVE identify_sections(_)
\* identify_sections: a header line starts a section, any other line joins
\* the current section, or starts the default section when there is none.
identify_sections(lines) ==
    IF lines = <<>> THEN <<>>
    ELSE LET sections == identify_sections(SubSeq(lines, 1, Len(lines) - 1))
             line == lines[Len(lines)]
         IN IF IsHeader(line)
            THEN Append(sections,
                        Section(CHOOSE p \in SECTION_PATTERNS : p.name = line.kind,
                                <<line>>))
            ELSE IF sections = <<>>
                 THEN <<Section([name |-> "Introduction", priority |-> 3,
                                 preserve |-> FALSE], <<line>>)>>
                 ELSE [sections EXCEPT ![Len(sections)].content = Append(@, line)]

\* The index of the first ``` line of lines after position i, 0 if none
NextFence(lines, i) ==
    IF \E j \in (i + 1)..Len(lines) : lines[j].kind = "fence"
    THEN CHOOSE j \in (i + 1)..Len(lines) :
             lines[j].kind = "fence"
             /\ \A k \in (i + 1)..(j - 1) : lines[k].kind # "fence"
    ELSE 0

RECURSIVE preserve_code_blocks(_, _)
\* preserve_code_blocks: each ```...``` match (non-greedy: a ``` line up to
\* the next one) becomes the placeholder <<<CODE_BLOCK_k>>>, k counted from
\* `done`; the blocks are returned beside the text.
preserve_code_blocks(lines, done) ==
    LET open == NextFence(lines, 0)
        close == IF open = 0 THEN 0 ELSE NextFence(lines, open)
    IN IF close = 0
       THEN [text |-> lines, code_blocks |-> <<>>]
       ELSE LET rest == preserve_code_blocks(SubSeq(lines, close + 1, Len(lines)), done + 1)
            IN [text |-> SubSeq(lines, 1, open - 1)
                            \o <<[kind |-> "placeholder", len |-> PlaceholderLen, n |-> done]>>
                            \o rest.text,
                code_blocks |-> <<SubSeq(lines, open, close)>> \o rest.code_blocks]

RECURSIVE restore_code_blocks(_, _)
\* restore_code_blocks: every occurrence of a placeholder becomes its block
restore_code_blocks(lines, code_blocks) ==
    IF lines = <<>> THEN <<>>
    ELSE (IF Head(lines).kind = "placeholder"
          THEN code_blocks[Head(lines).n + 1]
          ELSE <<Head(lines)>>)
         \o restore_code_blocks(Tail(lines), code_blocks)

\* A tail that takes one line more.
LastLinesOneMore(lines, k) ==
    IF k + 1 <= 0 \/ k + 1 >= Len(lines) THEN lines
    ELSE SubSeq(lines, Len(lines) - k, Len(lines))

\* lines[-k:] of Python
LastLines(lines, k) ==
    IF k <= 0 \/ k >= Len(lines) THEN lines
    ELSE SubSeq(lines, Len(lines) - k + 1, Len(lines))

\* The element "\n... [truncated N lines] ...\n" once joined with "\n":
\* an empty line, the marker, an empty line.
Marker(count) ==
    <<EmptyLine,
      [kind |-> "marker", len |-> MarkerBaseLen + (IF count < 10 THEN 1 ELSE 2),
       n |-> count],
      EmptyLine>>

\* int(n * (t / e)) as truncation.py:226-227 computes it in double
\* precision, for n <= 30 and t < e < 60: the quotient t/e and the product
\* are each rounded, which leaves the listed products just below their
\* integer value; int() truncates toward zero.
IntOfRatio(n, t, e) ==
    IF t < 0 THEN 0 - ((n * (0 - t)) \div e)
    ELSE (n * t) \div e
             - (IF <<n, t, e>> \in {<<22, 15, 22>>, <<22, 30, 44>>, <<23, 13, 23>>,
                                   <<23, 26, 46>>, <<26, 15, 26>>, <<26, 30, 52>>}
                THEN 1 ELSE 0)

\* int(k * 0.7) in double precision (truncation.py:233), for 0 <= k < 330
IntOfSevenTenths(k) == (k * 7) \div 10 - (IF k \in {90, 170, 180} THEN 1 ELSE 0)

\* truncate_section: the content, and whether the division raised
\* (ZeroDivisionError for an estimate of 0).
truncate_section(section, target_tokens) ==
    LET kept == preserve_code_blocks(section.content, 0)
        content == kept.text
        estimated == estimate_tokens(content)
    IN IF estimated <= target_tokens
       THEN [content |-> restore_code_blocks(content, kept.code_blocks), raised |-> FALSE]
       ELSE IF estimated = 0
       THEN [content |-> <<>>, raised |-> TRUE]
       ELSE LET ratio_lines == IntOfRatio(Len(content), target_tokens, estimated)
                keep_lines == IF ratio_lines < MinKeepLines
                              THEN Min(MinKeepLines, Len(content))
                              ELSE ratio_lines
                first_count == IntOfSevenTenths(keep_lines)
                last_count == keep_lines - first_count
                truncated == Take(content, first_count)
                                 \o Marker(Len(content) - keep_lines)
                                 \o LastLines(content, last_count)
            IN [content |-> restore_code_blocks(truncated, kept.code_blocks),
                raised |-> FALSE]

\* A sort key (priority, tokens): the smaller section first.
SortsBeforeSmallestFirst(a, b, bySize) ==
    \/ a.section.priority < b.section.priority
    \/ /\ bySize
       /\ a.section.priority = b.section.priority
       /\ estimate_tokens(a.section.content) < estimate_tokens(b.section.content)

\* sort key (priority, -tokens) of truncate's first sort; priority alone
\* (bySize FALSE) of its second sort
SortsBefore(a, b, bySize) ==
    \/ a.section.priority < b.section.priority
    \/ /\ bySize
       /\ a.section.priority = b.section.priority
       /\ estimate_tokens(a.section.content) > estimate_tokens(b.section.content)

RECURSIVE InsertSection(_, _, _)
InsertSection(sorted, x, bySize) ==
    IF sorted = <<>> THEN <<x>>
    ELSE IF SortsBefore(x, Head(sorted), bySize)
         THEN <<x>> \o sorted
         ELSE <<Head(sorted)>> \o InsertSection(Tail(sorted), x, bySize)

RECURSIVE SortSections(_, _)
\* list.sort: stable, ascending by the key
SortSections(seq, bySize) ==
    IF seq = <<>> THEN <<>>
    ELSE InsertSection(SortSections(SubSeq(seq, 1, Len(seq) - 1), bySize),
                       seq[Len(seq)], bySize)

\* An entry of a section list: the section and the content kept for it
Entry(s, content, raised) == [section |-> s, content |-> content, raised |-> raised]

RECURSIVE SelectEntries(_, _)
SelectEntries(entries, preserve) ==
    IF entries = <<>> THEN <<>>
    ELSE (IF Head(entries).section.preserve_complete = preserve
          THEN <<Head(entries)>> ELSE <<>>)
         \o SelectEntries(Tail(entries), preserve)

RECURSIVE SumTokens(_)
SumTokens(entries) ==
    IF entries = <<>> THEN 0
    ELSE estimate_tokens(Head(entries).section.content) + SumTokens(Tail(entries))

RECURSIVE AllocateWhileNotNegative(_, _)
\* A loop that skips a section only once the budget is below zero.
AllocateWhileNotNegative(others, remaining_budget) ==
    IF others = <<>> THEN <<>>
    ELSE LET section == Head(others).section
             tokens == estimate_tokens(section.content)
         IN IF remaining_budget < 0
            THEN AllocateWhileNotNegative(Tail(others), remaining_budget)
            ELSE IF tokens <= remaining_budget
            THEN <<Entry(section, section.content, FALSE)>>
                     \o AllocateWhileNotNegative(Tail(others), remaining_budget - tokens)
            ELSE LET cut == truncate_section(section, remaining_budget)
                 IN <<Entry(section, cut.content, cut.raised)>>
                        \o AllocateWhileNotNegative(Tail(others),
                               remaining_budget - estimate_tokens(cut.content))

RECURSIVE AllocateBudget(_, _)
\* The loop of truncate over the sections that are not preserved
AllocateBudget(others, remaining_budget) ==
    IF others = <<>> THEN <<>>
    ELSE LET section == Head(others).section
             tokens == estimate_tokens(section.content)
         IN IF remaining_budget <= 0
            THEN AllocateBudget(Tail(others), remaining_budget)
            ELSE IF tokens <= remaining_budget
            THEN <<Entry(section, section.content, FALSE)>>
                     \o AllocateBudget(Tail(others), remaining_budget - tokens)
            ELSE LET cut == truncate_section(section, remaining_budget)
                 IN <<Entry(section, cut.content, cut.raised)>>
                        \o AllocateBudget(Tail(others),
                                          remaining_budget - estimate_tokens(cut.content))

RECURSIVE JoinSections(_)
\* "\n\n".join: an empty line between two contents
JoinSections(entries) ==
    IF entries = <<>> THEN <<EmptyLine>>
    ELSE IF Len(entries) = 1 THEN Head(entries).content
    ELSE Head(entries).content \o <<EmptyLine>> \o JoinSections(Tail(entries))

RECURSIVE CutChars(_, _)
\* text[:n] for n >= 0: whole lines while they fit, then the cut line
CutChars(lines, n) ==
    IF Len(lines) = 1 THEN <<[lines[1] EXCEPT !.len = Min(@, n)]>>
    ELSE IF lines[1].len >= n THEN <<[lines[1] EXCEPT !.len = n]>>
    ELSE <<lines[1]>> \o CutChars(Tail(lines), n - lines[1].len - 1)

\* The simple truncation of truncate: text[:target_chars] (a negative
\* target cuts from the end) + "\n\n... [truncated]"
SimpleTruncation(text, target_chars) ==
    LET cut == IF target_chars >= 0 THEN target_chars
               ELSE IF Chars(text) + target_chars > 0 THEN Chars(text) + target_chars
               ELSE 0
    IN CutChars(text, cut) \o <<EmptyLine, [kind |-> "marker", len |-> 15, n |-> 0]>>

\* A truncator that sends a text of exactly the effective budget through
\* the truncation.
OverBudgetFromLimit(estimated_tokens, effective_max) == estimated_tokens >= effective_max

\* The test of truncate on the estimate (the negation of truncation.py:263)
OverBudget(estimated_tokens, effective_max) == estimated_tokens > effective_max

\* A truncator that hands the preserved sections to truncate_section too.
PreservedContentCut(s, effective_max) == truncate_section(s, effective_max).content

\* The content truncate keeps for a preserve_complete section
PreservedContent(s, effective_max) == s.content

RECURSIVE KeepPreserved(_, _)
KeepPreserved(entries, effective_max) ==
    IF entries = <<>> THEN <<>>
    ELSE <<Entry(Head(entries).section,
                 PreservedContent(Head(entries).section, effective_max), FALSE)>>
         \o KeepPreserved(Tail(entries), effective_max)

\* The end of truncate (truncation.py:335-342): the contents of
\* all_sections, sorted back by priority, are joined. `kept` is that list.
Reassemble(all_sections) ==
    [text |-> JoinSections(all_sections), flag |-> TRUE,
     raised |-> \E i \in 1..Len(all_sections) : all_sections[i].raised,
     kept |-> all_sections]

\* truncate from its first sort on (truncation.py:282-328), for the
\* sections sorted by (priority, -tokens)
TruncateSorted(sections, effective_max) ==
    Reassemble(
        SortSections(
            KeepPreserved(SelectEntries(sections, TRUE), effective_max)
                \o AllocateBudget(SelectEntries(sections, FALSE),
                                  effective_max - SumTokens(SelectEntries(sections, TRUE))),
            FALSE))

\* truncate once the text is over budget (truncation.py:273-342)
TruncateSections(text, found, effective_max) ==
    IF found = <<>>
    THEN [text |-> SimpleTruncation(text, effective_max * CharsPerToken),
          flag |-> TRUE, raised |-> FALSE, kept |-> <<>>]
    ELSE TruncateSorted(
             SortSections([i \in 1..Len(found) |-> Entry(found[i], found[i].content, FALSE)],
                          TRUE),
             effective_max)

\* ReportTruncator(max_tokens, token_buffer).truncate(text)
truncate(text, max_tokens, token_buffer) ==
    IF ~OverBudget(estimate_tokens(text), max_tokens - token_buffer)
    THEN [text |-> text, flag |-> FALSE, raised |-> FALSE, kept |-> <<>>]
    ELSE TruncateSections(text, identify_sections(text), max_tokens - token_buffer)

\* truncate_report: a max_tokens of None or 0 gives the default truncator
truncate_report(text, max_tokens) ==
    truncate(text, IF max_tokens # 0 THEN max_tokens ELSE DefaultMaxTokens,
             DefaultTokenBuffer)

\* The limits the truncator is built with in the model
TokenLimits == {0, 1, 2, 4}
TokenBuffers == {0, 1}

NoResult == [text |-> <<>>, flag |-> FALSE, raised |-> FALSE, kept |-> <<>>]

\* The truncator alone: a text of at most MaxLines lines and the limits of
\* the truncator, or a call of truncate_report (api "report") with a limit.
TruncInit ==
    /\ RunIdle
    /\ search = NoSearch
    /\ store = NoStore
    /\ \E n \in 1..MaxLines : \E text \in TextsOfLines(n) :
          \/ \E m \in TokenLimits, b \in TokenBuffers :
                trunc = [pc |-> "ready", api |-> "truncate", text |-> text,
                         max_tokens |-> m, token_buffer |-> b,
                         first |-> NoResult, second |-> NoResult]
          \/ \E m \in {0, 2} :
                trunc = [pc |-> "ready", api |-> "report", text |-> text,
                         max_tokens |-> m, token_buffer |-> DefaultTokenBuffer,
                         first |-> NoResult, second |-> NoResult]

\* The call made on a text with the limits of the state
Truncated(text) ==
    IF trunc.api = "report"
    THEN truncate_report(text, trunc.max_tokens)
    ELSE truncate(text, trunc.max_tokens, trunc.token_buffer)

\* truncate is called on the text, and then on the text it returned
Truncate ==
    /\ trunc.pc \in {"ready", "once"}
    /\ ~trunc.first.raised
    /\ trunc' = IF trunc.pc = "ready"
                THEN [trunc EXCEPT !.pc = "once", !.first = Truncated(trunc.text)]
                ELSE [trunc EXCEPT !.pc = "twice", !.second = Truncated(trunc.first.text)]
    /\ UNCHANGED <<runVars, search, store>>

TruncNext == Truncate

TruncSpec == TruncInit /\ [][TruncNext]_vars

\* truncate_section alone: the contents of the sections it is handed, of
\* at most MaxSectionLines lines. Every line carries its line number; the
\* lines have 3 characters and the last one 4, and in a fenced content
\* lines 2 and 4 are fences.
SectionContents ==
    {[i \in 1..n |-> [kind |-> "text", len |-> IF i = n THEN 4 ELSE 3, n |-> i]] :
        n \in 1..MaxSectionLines}
    \cup {[i \in 1..n |-> IF i \in {2, 4} THEN Line("fence", 3)
                          ELSE [kind |-> "text", len |-> IF i = n THEN 4 ELSE 3, n |-> i]] :
             n \in 4..MaxSectionLines}

SectionInit ==
    /\ RunIdle
    /\ search = NoSearch
    /\ store = NoStore
    /\ \E content \in SectionContents :
          \E target_tokens \in (0 - 1)..(Len(content) + 2) :
             trunc = [pc |-> "section", api |-> "section", text |-> content,
                      max_tokens |-> target_tokens, token_buffer |-> 0,
                      first |-> NoResult, second |-> NoResult]

\* truncate_section(section, target_tokens) is called
TruncateSection ==
    /\ trunc.pc = "section"
    /\ LET cut == truncate_section(
                      Section([name |-> "Logs", priority |-> 4, preserve |-> FALSE],
                              trunc.text),
                      trunc.max_tokens)
       IN trunc' = [trunc EXCEPT !.pc = "cut",
                                 !.first = [text |-> cut.content, flag |-> FALSE,
                                            raised |-> cut.raised, kept |-> <<>>]]
    /\ UNCHANGED <<runVars, search, store>>

SectionSpec == SectionInit /\ [][TruncateSection]_vars

----------------------------------------------------------------------------
(* The retrieval pipeline called alone (mnemosyne/core/search.py)          *)

\* The reports of the store in the retrieval specification
StoredIds == {"id1", "id2", "id3"}

\* Candidate lists handed to rerank_results: at most MaxResults results
\* with distinct identifiers, in any order of their scores.
CandidateLists ==
    {l \in SeqsUpTo({SearchResult(i, h) : i \in StoredIds, h \in RetrievalScores},
                    MaxResults) :
        \A a, b \in 1..Len(l) : a # b => l[a].report_id # l[b].report_id}

\* The constant k of reciprocal-rank fusion in the store
RrfK == 2

\* The ranked lists of the store under one representation: the dense
\* ranking carries the similarity scores, the sparse ranking is a list of
\* identifiers; at most MaxResults distinct reports each.
DenseRankings ==
    {l \in SeqsUpTo({SearchResult(i, h) : i \in StoredIds, h \in RetrievalScores},
                    MaxResults) :
        /\ \A a, b \in 1..Len(l) : a # b => l[a].report_id # l[b].report_id
        /\ \A a \in 1..(Len(l) - 1) : l[a].score >= l[a + 1].score}

SparseRankings ==
    {l \in SeqsUpTo(StoredIds, MaxResults) :
        \A a, b \in 1..Len(l) : a # b => l[a] # l[b]}

\* The identifiers of a list of results
IdsOf(results) == [i \in 1..Len(results) |-> results[i].report_id]

\* The 1-indexed rank of id in a ranked list, 0 when it is not in it
RankOf(list, id) ==
    IF IsIn(list, id) THEN CHOOSE i \in 1..Len(list) : list[i] = id ELSE 0

RECURSIVE RrfDen(_)
\* The common denominator of the fused scores of ranks 1..n
RrfDen(n) == IF n = 0 THEN 1 ELSE (RrfK + n) * RrfDen(n - 1)

\* 1/(k + rank) of id in one list, over the common denominator
RrfTerm(list, id) ==
    IF RankOf(list, id) = 0 THEN 0
    ELSE RrfDen(MaxResults + 1) \div (RrfK + RankOf(list, id))

\* The summed reciprocal rank of id across the two lists
RrfScore(dense, sparse, id) == RrfTerm(dense, id) + RrfTerm(sparse, id)

\* The members of the two lists in retrieval order: the dense list, then
\* the members of the sparse list that are not in it
Retrieved(dense, sparse) ==
    dense \o SelectSeq(sparse, LAMBDA id : ~IsIn(dense, id))

\* The store's answer to the prefetch + FusionQuery(RRF) query of
\* search.py:105-125 before its outer limit: the top `limit` of each
\* ranking fused by descending summed reciprocal rank, ties in retrieval
\* order.
Fuse(dense, sparse, limit) ==
    LET d == Take(dense, limit)
        s == Take(sparse, limit)
        all == Retrieved(d, s)
    IN SortDesc([i \in 1..Len(all) |-> SearchResult(all[i], RrfScore(d, s, all[i]))])

\* What the embedders, the store and the conversion do during a call of
\* hybrid_search: every step works, or a step of the dual path raises and
\* the dense-only path works or raises at one of its steps.
HybridEnvs ==
    [dual : {"ok"}, fallback : {"ok"}]
    \cup [dual : DualSteps, fallback : {"ok"} \cup FallbackSteps]

\* What the re-ranking model does during a call of rerank_results
RerankEnvs ==
    [rerank : {"ok"}, rscore : [StoredIds -> RerankScores]]
    \cup [rerank : {"load", "score"}, rscore : {[i \in StoredIds |-> 0]}]

NoCall ==
    [pc |-> "ready", env |-> [rerank |-> "none"], limit |-> 0, candidates |-> <<>>,
     top_k |-> 0, raised |-> FALSE, results |-> <<>>, dense |-> <<>>, sparse |-> <<>>]

SearchInit ==
    /\ RunIdle
    /\ trunc = NoTrunc
    /\ store = NoStore
    /\ search = NoCall

\* hybrid_search(query_text, limit) is called: the points it converts are
\* the store's fused answer on the dual path, the dense ranking on the
\* dense-only path.
HybridSearch ==
    /\ search.pc = "ready"
    /\ \E e \in HybridEnvs, dense \in DenseRankings, sparse \in SparseRankings,
          limit \in 0..MaxResults :
          LET env == [dual |-> e.dual, fallback |-> e.fallback,
                      points |-> IF e.dual = "ok"
                                 THEN Fuse(IdsOf(dense), sparse, limit)
                                 ELSE dense]
              found == hybrid_search(env, limit)
          IN search' = [search EXCEPT !.pc = "searched", !.env = env, !.limit = limit,
                                      !.dense = IdsOf(dense), !.sparse = sparse,
                                      !.raised = found.raised, !.results = found.results]
    /\ UNCHANGED <<runVars, trunc, store>>

\* rerank_results(query, candidates, top_k) is called
RerankResults ==
    /\ search.pc = "ready"
    /\ \E env \in RerankEnvs, candidates \in CandidateLists, top_k \in 0..(MaxResults + 1) :
          search' = [search EXCEPT !.pc = "reranked", !.env = env,
                                   !.candidates = candidates, !.top_k = top_k,
                                   !.results = rerank_results(candidates, top_k, env)]
    /\ UNCHANGED <<runVars, trunc, store>>

\* The call has returned or raised: the searcher is ready for the next one
Return ==
    /\ search.pc \in {"searched", "reranked"}
    /\ search' = NoCall
    /\ UNCHANGED <<runVars, trunc, store>>

SearchNext == HybridSearch \/ RerankResults \/ Return

SearchSpec == SearchInit /\ [][SearchNext]_vars

----------------------------------------------------------------------------
(* Ingestion into the vector store (mnemosyne/db/qdrant.py)                *)

\* Raw report texts, and the structured reports the normalisation may
\* produce for a text (it is a reasoning-service answer: two calls on one
\* text may differ).
RawTexts == {"raw1", "raw2"}
Normalizations == {"n1", "n2"}

\* calculate_report_id: the UUID made of the first 16 bytes of the SHA-256
\* of the text
calculate_report_id(raw_text) == "uuid-" \o raw_text

\* What the collaborators do during one call of ingest_report: the point
\* lookup, the embedding and the upsert each answer or raise.
IngestEnvs == [retrieve : {"ok", "raises"}, embed : {"ok", "raises"},
               upsert : {"ok", "raises"}]

\* client.retrieve(ids=[report_id])
Retrieve(points, report_id) == {p \in points : p.id = report_id}

\* report_exists: FALSE also when the lookup raises
report_exists(points, report_id, env) ==
    IF env.retrieve = "ok" THEN Retrieve(points, report_id) # {} ELSE FALSE

\* client.upsert(points=[point]): the point replaces the one of its id
Upsert(points, point) == {p \in points : p.id # point.id} \cup {point}

IngestionResult(success, report_id, already_exists) ==
    [success |-> success, report_id |-> report_id, already_exists |-> already_exists]

\* ingest_report: the collection after the call and the result returned
ingest_report(points, raw_text, normalized, env) ==
    LET report_id == calculate_report_id(raw_text)
        point == [id |-> report_id, vector |-> "dense-" \o normalized,
                  payload |-> normalized]
    IN IF report_exists(points, report_id, env)
       THEN [points |-> points, result |-> IngestionResult(FALSE, report_id, TRUE)]
       ELSE IF env.embed = "ok" /\ env.upsert = "ok"
            THEN [points |-> Upsert(points, point),
                  result |-> IngestionResult(TRUE, report_id, FALSE)]
            ELSE [points |-> points, result |-> IngestionResult(FALSE, report_id, FALSE)]

\* An empty collection and no call made yet
IngestInit ==
    /\ RunIdle
    /\ trunc = NoTrunc
    /\ search = NoSearch
    /\ store = [pc |-> "empty", points |-> {}, before |-> {}, raw_text |-> "",
                normalized |-> "", env |-> [retrieve |-> "none"],
                result |-> IngestionResult(FALSE, "", FALSE)]

\* ingest_report(raw_text, normalized) is called
IngestReport ==
    /\ store.pc \in {"empty", "ingested"}
    /\ \E raw_text \in RawTexts, normalized \in Normalizations, env \in IngestEnvs :
          LET done == ingest_report(store.points, raw_text, normalized, env)
          IN store' = [pc |-> "ingested", points |-> done.points, before |-> store.points,
                       raw_text |-> raw_text, normalized |-> normalized, env |-> env,
                       result |-> done.result]
    /\ UNCHANGED <<runVars, trunc, search>>

IngestSpec == IngestInit /\ [][IngestReport]_vars

----------------------------------------------------------------------------
(* Claims *)

Terminal(r) == pc[r] = "done"
Verdict(r) == outcome[r].kind = "verdict"

\* C1: in every run, once a retrieval tool call completes with a top score
\* strictly above 0.9 and a non-empty identifier, no further reasoning
\* iteration or retrieval call happens after that tool call (the run is at
\* the post-call hook, at the result message or ended), and the run ends
\* with the verdict is_duplicate=true, status="duplicate",
\* similarity_score = that score, matched_report_id = that identifier.
C1_EarlyStop ==
    \A r \in RunIds :
        hitAt[r].hit =>
            /\ iterations[r] = hitAt[r].iterations
            /\ pc[r] \in {"posthook", "result", "done"}
            /\ Terminal(r) =>
                  /\ Verdict(r)
                  /\ outcome[r].is_duplicate
                  /\ outcome[r].status = "duplicate"
                  /\ outcome[r].similarity_score = hitAt[r].score
                  /\ outcome[r].matched_report_id = JStr(hitAt[r].id)

\* C1 witness: a run ended after a hit in its second iteration.
C1_Witness ==
    \E r \in RunIds :
        /\ hitAt[r].hit /\ Terminal(r) /\ hitAt[r].iterations = 2
        /\ outcome[r].similarity_score = 95 /\ outcome[r].status = "duplicate"

\* C2: a run returns the synthesized early-stop duplicate verdict only if a
\* retrieval call executed during that same run produced a top score above
\* 0.9 with an identifier.
C2_EarlyVerdictOnlyAfterOwnHit ==
    \A r \in RunIds :
        (Terminal(r) /\ Verdict(r) /\ outcome[r].path = "early") => IsHit(ownMeta[r])

\* C3: a run that reaches the maximum iteration count without a parseable
\* final answer returns status="similar", is_duplicate=false,
\* similarity_score=0.0.
C3_CapYieldsSimilar ==
    \A r \in RunIds :
        (Terminal(r) /\ "cap" \in causes[r]
         /\ ~parse_json_from_text(last_assistant_text[r]).found) =>
            /\ Verdict(r)
            /\ outcome[r].status = "similar"
            /\ ~outcome[r].is_duplicate
            /\ outcome[r].similarity_score = 0

\* C4: final-answer handling returns a verdict and never raises: a text with
\* no '{'...'}' span, or whose span is not valid JSON, gives
\* is_duplicate=false, similarity_score=0.0, no matched identifier and
\* status="new"; a valid JSON object gives a verdict built from the object,
\* for any values its fields carry.
C4_FinalAnswerNeverRaises ==
    \A r \in RunIds :
        (Terminal(r) /\ outcome[r].path \in {"parsed", "fallback"}) =>
            LET parsed == parse_json_from_text(last_assistant_text[r])
            IN /\ Verdict(r)
               /\ ~parsed.found =>
                     /\ ~outcome[r].is_duplicate
                     /\ outcome[r].similarity_score = 0
                     /\ outcome[r].matched_report_id = JNull
                     /\ outcome[r].status = "new"
               /\ parsed.found =>
                     /\ JBool(outcome[r].is_duplicate)
                           = Get(parsed, "is_duplicate", JBool(FALSE))
                     /\ JNum(outcome[r].similarity_score)
                           = Get(parsed, "similarity_score", JNum(0))
                     /\ outcome[r].matched_report_id
                           = Get(parsed, "matched_report_id", JNull)
                     /\ JStr(outcome[r].status) = Get(parsed, "status", JStr("new"))

\* C5: if the vector store or the reasoning service is unreachable during a
\* run, the run ends as a failure raised to the caller and no verdict is
\* returned, also when the failure occurs inside a retrieval tool call.
C5_UnreachableServiceRaises ==
    \A r \in RunIds : (Terminal(r) /\ failed[r]) => outcome[r].kind = "raised"

\* C6: a retrieval tool call whose query has fewer than 5 characters after
\* trimming surrounding whitespace is denied before execution: the tool is
\* not entered, the last-tool-call metadata is left unchanged and the run
\* continues (its next turn, or the result message at the turn cap, with no
\* outcome yet); a call whose trimmed query has 5 or more characters is
\* permitted (the tool is entered with that query).
C6_ShortQueryDenied ==
    [][\A r \in RunIds :
          (pc[r] = "pretool" /\ pc'[r] # "pretool") =>
              IF Len(Strip(query[r])) < 5
              THEN /\ pc'[r] \in {"reasoning", "result"}
                   /\ meta' = meta
                   /\ ownMeta'[r] = ownMeta[r]
                   /\ outcome'[r] = NoOutcome
              ELSE pc'[r] = "tool" /\ query'[r] = query[r]]_vars

\* C6 witness: a query of 4 characters between two blanks has been denied
\* and the run is in its next turn.
C6_Witness ==
    \E r \in RunIds :
        /\ pc[r] = "reasoning" /\ iterations[r] = 1 /\ ownMeta[r] = NotWritten
        /\ <<Space, "a", "a", "a", "a", Space>> \in Queries

\* C7: every verdict returned by search_duplicates has status in
\* {"duplicate", "similar", "new"} and similarity_score within [0.0, 1.0].
C7_VerdictWellFormed ==
    \A r \in RunIds :
        (Terminal(r) /\ Verdict(r)) =>
            /\ outcome[r].status \in {"duplicate", "similar", "new"}
            /\ outcome[r].similarity_score >= 0
            /\ outcome[r].similarity_score <= 100

EndCauses == {"early", "final", "cap", "error"}

\* C8 (state part): a run at the result message or ended got there through
\* exactly one of the four ways; an ended run has produced exactly one
\* outcome, a verdict or a raised error, the raised error for a service
\* error; a run still going has produced none.
C8_OneCause ==
    \A r \in RunIds :
        /\ pc[r] \in {"result", "done"} =>
              causes[r] \subseteq EndCauses /\ Cardinality(causes[r]) = 1
        /\ Terminal(r) =>
              /\ steps[r] = 1
              /\ outcome[r].kind \in {"verdict", "raised"}
              /\ "error" \in causes[r] => outcome[r].kind = "raised"
        /\ pc[r] \in {"reasoning", "pretool", "tool", "posthook"} =>
              causes[r] = {} /\ steps[r] = 0 /\ outcome[r] = NoOutcome

\* C8: every run reaches its terminal state through exactly one of the
\* early-stopping signal, a final answer with no further tool call, the
\* iteration cap, or a propagated service error; once terminal, the run
\* yields exactly one outcome and performs no further reasoning or
\* retrieval step (the only step from an ended run is a new call of
\* search_duplicates).
C8_OneTerminalPath ==
    /\ []C8_OneCause
    /\ [][\A r \in RunIds :
             Terminal(r) =>
                 \/ /\ pc'[r] = "done"
                    /\ iterations'[r] = iterations[r]
                    /\ outcome'[r] = outcome[r]
                    /\ ownMeta'[r] = ownMeta[r]
                 \/ pc'[r] = "reasoning" /\ iterations'[r] = 0 /\ steps'[r] = 0]_vars

\* C8 witness: a run has ended at the iteration cap with a verdict.
C8_Witness ==
    \E r \in RunIds :
        /\ Terminal(r) /\ causes[r] = {"cap"} /\ iterations[r] = react_max_iterations
        /\ Verdict(r)

\* C9: assuming every reasoning-service call and every retrieval call
\* returns, every run terminates after at most react_max_iterations
\* reasoning iterations.
C9_Terminates ==
    /\ [](\A r \in RunIds : iterations[r] <= react_max_iterations)
    /\ \A r \in RunIds : (pc[r] \notin {"idle", "done"}) ~> Terminal(r)

\* C9 witness: a run ended at its fifth iteration after a retrieval call in
\* every iteration.
C9_Witness ==
    \E r \in RunIds :
        /\ Terminal(r) /\ iterations[r] = react_max_iterations
        /\ "cap" \in causes[r] /\ ownMeta[r] # NotWritten

\* C10: when two runs are interleaved in one process, each run's
\* early-stopping hook and each run's final verdict read only the metadata
\* written by that run's own most recent retrieval call.
C10_OwnMetadataOnly ==
    \A r \in RunIds :
        /\ hookSaw[r] # "other"
        /\ (Terminal(r) /\ Verdict(r) /\ outcome[r].path = "early") =>
              /\ IsHit(ownMeta[r])
              /\ outcome[r].similarity_score = ownMeta[r].top_score
              /\ outcome[r].matched_report_id = ownMeta[r].top_report_id

\* C11: the candidates list of the returned verdict holds the candidates
\* considered during the run: after a run whose retrieval call returned
\* candidates and whose verdict came from the reasoning service's final
\* answer, each such candidate is in the list with its identifier, score,
\* title and category.
C11_CandidatesReported ==
    \A r \in RunIds :
        (Terminal(r) /\ Verdict(r) /\ outcome[r].path = "parsed"
         /\ ownMeta[r].keys = "hits") =>
            \A i \in 1..Len(ownMeta[r].candidates) :
                IsIn(outcome[r].candidates, ownMeta[r].candidates[i])

\* The effective budget of the truncator of the state: max_tokens minus
\* token_buffer of the truncator that was built.
TruncBudget ==
    IF trunc.api = "report"
    THEN (IF trunc.max_tokens # 0 THEN trunc.max_tokens ELSE DefaultMaxTokens)
             - DefaultTokenBuffer
    ELSE trunc.max_tokens - trunc.token_buffer

TruncCalled == trunc.pc \in {"once", "twice"}

\* seq holds part as a contiguous run of lines
Contains(seq, part) ==
    \E j \in 0..(Len(seq) - Len(part)) : SubSeq(seq, j + 1, j + Len(part)) = part

\* The priority-1 sections of the input text, as truncate segments it
PreservedOf(text) ==
    LET found == identify_sections(text)
    IN {found[i] : i \in {k \in 1..Len(found) : found[k].preserve_complete}}

\* The estimated size of the priority-1 sections of the input text
PreservedTokens(text) ==
    LET found == identify_sections(text)
    IN SumTokens(SelectEntries([i \in 1..Len(found) |->
                                   Entry(found[i], found[i].content, FALSE)], TRUE))

\* C12: for every text whose estimated size (characters integer-divided by
\* 4) exceeds the effective budget max_tokens - token_buffer, the estimated
\* size of truncate's output is at most the effective budget, unless the
\* priority-1 sections alone exceed the budget.
C12_OutputWithinBudget ==
    (TruncCalled /\ estimate_tokens(trunc.text) > TruncBudget
     /\ PreservedTokens(trunc.text) <= TruncBudget) =>
        estimate_tokens(trunc.first.text) <= TruncBudget

\* C13: for every over-budget text that contains a fenced block inside a
\* section opened by a Technical Artifacts header (the header at line h, no
\* other header between it and the opening fence at line a, the closing
\* fence at line b), that block is in truncate's output as a contiguous run
\* of lines identical to the input's, whatever the lines of the block are.
C13_FencedBlockIntact ==
    (TruncCalled /\ estimate_tokens(trunc.text) > TruncBudget) =>
        \A h, a, b \in 1..Len(trunc.text) :
            (/\ h < a /\ a < b
             /\ trunc.text[h].kind = "Technical Artifacts"
             /\ \A k \in (h + 1)..(a - 1) : trunc.text[k].kind \in {"text"}
             /\ trunc.text[a].kind = "fence"
             /\ NextFence(trunc.text, a) = b) =>
                Contains(trunc.first.text, SubSeq(trunc.text, a, b))

\* C14: every section whose header matches a priority-1 pattern is in
\* truncate's output with its content complete and unchanged, also when the
\* priority-1 sections alone exceed the effective budget.
C14_PreservedSectionsComplete ==
    TruncCalled =>
        /\ ~trunc.first.raised
        /\ \A s \in PreservedOf(trunc.text) : Contains(trunc.first.text, s.content)

\* C14 witness: a truncated text whose priority-1 sections alone exceed the
\* budget and that has another section too.
C14_Witness ==
    /\ TruncCalled /\ trunc.first.flag
    /\ TruncBudget > 0
    /\ PreservedTokens(trunc.text) > TruncBudget
    /\ Cardinality(PreservedOf(trunc.text)) = 2
    /\ \E i \in 1..Len(trunc.text) : trunc.text[i].kind = "Logs"

\* C15: for every text with len(text)//4 <= max_tokens - token_buffer,
\* truncate returns the text unchanged with flag=false, so truncating that
\* result again is a no-op; flag=true is returned exactly when the estimate
\* exceeds the effective budget.
C15_UnderBudgetUnchanged ==
    TruncCalled =>
        /\ trunc.first.flag <=> estimate_tokens(trunc.text) > TruncBudget
        /\ estimate_tokens(trunc.text) <= TruncBudget =>
              /\ trunc.first.text = trunc.text
              /\ ~trunc.first.flag
              /\ trunc.pc = "twice" =>
                    trunc.second.text = trunc.text /\ ~trunc.second.flag

\* C15 witness: a text of several lines whose estimate is exactly the
\* effective budget has been truncated twice.
C15_Witness ==
    /\ trunc.pc = "twice" /\ trunc.api = "truncate"
    /\ Len(trunc.text) > 1
    /\ TruncBudget > 0
    /\ estimate_tokens(trunc.text) = TruncBudget
    /\ trunc.second.text = trunc.text

\* C16: truncate never raises for any input text and any
\* max_tokens/token_buffer setting (an effective budget <= 0, texts with no
\* headers, no newlines or unterminated fences included), and whenever it
\* reports truncation the returned text is not longer than the input.
C16_NeverRaisesNeverLonger ==
    TruncCalled =>
        /\ ~trunc.first.raised
        /\ trunc.first.flag => Chars(trunc.first.text) <= Chars(trunc.text)

\* C17: whenever any step of the dual-representation path fails (dense or
\* sparse embedding of the query, the fused store query, or conversion of
\* the returned points), hybrid_search returns the results of a
\* semantic-only query with the same limit and does not raise to the
\* caller, except when the store is totally unavailable.
C17_FallbackNeverRaises ==
    (search.pc = "searched" /\ search.env.dual \in DualSteps
     /\ search.env.fallback # "dense_query") =>
        /\ ~search.raised
        /\ search.results = Take(search.env.points, search.limit)

RerankCalled == search.pc = "reranked"

\* C18: for every query, candidate list and top_k, each identifier returned
\* by rerank_results is the identifier of an input candidate, the returned
\* report payload is that input candidate's payload, and at most top_k
\* results are returned, on the re-ranker-success path and on the
\* re-ranker-failure path.
C18_ResultsAreCandidates ==
    RerankCalled =>
        /\ Len(search.results) <= search.top_k
        /\ \A i \in 1..Len(search.results) :
              \E j \in 1..Len(search.candidates) :
                  /\ search.candidates[j].report_id = search.results[i].report_id
                  /\ search.candidates[j].report = search.results[i].report

\* C18 witness: a re-ranked list that is cut by top_k and whose order is
\* not the input order.
C18_Witness ==
    /\ RerankCalled /\ search.env.rerank = "ok"
    /\ Len(search.candidates) = 2 /\ search.top_k = 1
    /\ Len(search.results) = 1
    /\ search.results[1].report_id = search.candidates[2].report_id

\* C19: when the re-ranker succeeds, rerank_results returns the top_k
\* candidates in descending order of re-rank score (all of them when there
\* are fewer; every candidate left out scores no more than the returned
\* ones), and each returned SearchResult's score is the re-ranker's score
\* for that candidate, not its retrieval score.
C19_SortedByRerankScore ==
    (RerankCalled /\ search.env.rerank = "ok") =>
        /\ Len(search.results) = Min(search.top_k, Len(search.candidates))
        /\ \A i \in 1..Len(search.results) :
              search.results[i].score = search.env.rscore[search.results[i].report_id]
        /\ \A i \in 1..(Len(search.results) - 1) :
              search.results[i].score >= search.results[i + 1].score
        /\ \A j \in 1..Len(search.candidates) :
              \/ \E i \in 1..Len(search.results) :
                    search.results[i].report_id = search.candidates[j].report_id
              \/ \A i \in 1..Len(search.results) :
                    search.results[i].score
                        >= search.env.rscore[search.candidates[j].report_id]

\* C19 witness: two candidates whose re-rank scores reverse their retrieval
\* order, both returned with the re-rank scores.
C19_Witness ==
    /\ RerankCalled /\ search.env.rerank = "ok"
    /\ Len(search.candidates) = 2 /\ Len(search.results) = 2
    /\ search.candidates[1].score > search.candidates[2].score
    /\ search.results[1].report_id = search.candidates[2].report_id
    /\ search.results[1].score # search.candidates[2].score

\* C20: when the re-ranking model fails (raises while loading or while
\* scoring), rerank_results does not raise and returns the first top_k
\* input candidates in input order with their scores and payloads
\* unmodified.
C20_FailureReturnsInputPrefix ==
    (RerankCalled /\ search.env.rerank \in {"load", "score"}) =>
        /\ ~search.raised
        /\ search.results = SubSeq(search.candidates, 1,
                                   Min(search.top_k, Len(search.candidates)))

\* C20 witness: the model failed to load and two candidates were cut to the
\* first one.
C20_Witness ==
    /\ RerankCalled /\ search.env.rerank = "load"
    /\ Len(search.candidates) = 2 /\ search.top_k = 1
    /\ search.results = <<search.candidates[1]>>

\* C21: given a dense and a sparse ranked candidate list (the top `limit`
\* of each ranking) with no common members, the list hybrid_search(query,
\* limit) returns has as many members as their union and is ordered by
\* descending summed reciprocal rank 1/(k+rank), ties in retrieval order.
C21_FusedListIsUnion ==
    LET d == Take(search.dense, search.limit)
        s == Take(search.sparse, search.limit)
        all == Retrieved(d, s)
    IN (search.pc = "searched" /\ search.env.dual = "ok"
        /\ \A i \in 1..Len(d) : ~IsIn(s, d[i])) =>
           /\ Len(search.results) = Len(d) + Len(s)
           /\ \A i, j \in 1..Len(search.results) :
                 i < j =>
                    LET a == search.results[i].report_id
                        b == search.results[j].report_id
                    IN \/ RrfScore(d, s, a) > RrfScore(d, s, b)
                       \/ /\ RrfScore(d, s, a) = RrfScore(d, s, b)
                          /\ RankOf(all, a) < RankOf(all, b)

\* C22: the report identifier is a function of the raw text alone, and in
\* any sequence of ingest_report calls a call for a raw text whose
\* identifier is already stored returns success=false with
\* already_exists=true and leaves the stored point (vector and payload)
\* unchanged, so the store never holds more than one point per raw text.
C22_ReingestionDetected ==
    store.pc = "ingested" =>
        /\ store.result.report_id = calculate_report_id(store.raw_text)
        /\ \A p, q \in store.points : p.id = q.id => p = q
        /\ (\E p \in store.before : p.id = calculate_report_id(store.raw_text)) =>
              /\ ~store.result.success
              /\ store.result.already_exists
              /\ store.points = store.before

\* C23: the top score the early-stopping policy compares with 0.9 after a
\* retrieval call that found candidates is a score the re-ranking model
\* produced during that call, also when the re-ranker or the
\* dual-representation search fell back.
C23_TopScoreIsRerankScore ==
    \A r \in RunIds :
        (pc[r] = "posthook" /\ lastCall[r].found > 0) =>
            meta.top_score \in lastCall[r].scores

\* C24: a retrieval call that finds no candidates invokes no re-ranking
\* model, returns the zero-result message to the reasoning service, leaves
\* top score 0.0 and no matched identifier as the last tool-call metadata,
\* and does not trigger early stopping: neither the hook after it nor the
\* end of the run takes it for a hit.
C24_ZeroResultCall ==
    \A r \in RunIds :
        (lastCall[r].made /\ ~lastCall[r].error /\ lastCall[r].found = 0) =>
            /\ lastCall[r].model = "none"
            /\ lastCall[r].content = "No results found."
            /\ meta.top_score = 0 /\ meta.top_report_id = JNull
            /\ meta.result_count = 0 /\ meta.candidates = <<>>
            /\ ~early_stopping_hook(meta)
            /\ "early" \notin causes[r]
            /\ Terminal(r) => outcome[r].path # "early"

\* C24 witness: a run whose last retrieval call, in its second iteration or
\* later, found no candidates, and that has ended with a verdict.
C24_Witness ==
    \E r \in RunIds :
        /\ lastCall[r].made /\ ~lastCall[r].error /\ lastCall[r].found = 0
        /\ iterations[r] >= 2
        /\ Terminal(r) /\ Verdict(r)

\* truncate_section has returned a shortened content: the estimate of the
\* content exceeded the target and nothing was raised.
SectionCut ==
    /\ trunc.pc = "cut" /\ ~trunc.first.raised
    /\ estimate_tokens(preserve_code_blocks(trunc.text, 0).text) > trunc.max_tokens

\* result is the first h of lines, the marker element (an empty line, one
\* marker line, an empty line), then the last k - h of lines, with the
\* fenced blocks put back; and no numbered line is in it twice.
HeadMarkerTail(result, lines, code_blocks, k, h) ==
    LET n == Len(lines)
        head == restore_code_blocks(SubSeq(lines, 1, h), code_blocks)
        tail == restore_code_blocks(SubSeq(lines, n - (k - h) + 1, n), code_blocks)
    IN /\ k <= n /\ k - h >= 1 /\ h < n - (k - h) + 1
       /\ Len(result) = Len(head) + 3 + Len(tail)
       /\ SubSeq(result, 1, Len(head)) = head
       /\ result[Len(head) + 1] = EmptyLine
       /\ result[Len(head) + 2].kind = "marker"
       /\ result[Len(head) + 3] = EmptyLine
       /\ SubSeq(result, Len(head) + 4, Len(result)) = tail
       /\ Cardinality({i \in 1..Len(result) : result[i].kind = "marker"}) = 1
       /\ \A i, j \in 1..Len(result) :
             (i # j /\ result[i] = result[j]) => result[i].n = 0

\* C25 (as stated): when truncate_section shortens a section of n lines to
\* k kept lines (k = floor(n * target/estimated), replaced by min(10, n)
\* when that is below 10), the result is the first floor(0.7*k) lines,
\* exactly one elision marker line, then the last k - floor(0.7*k) lines;
\* k <= n, the tail count is at least 1, and head and tail never overlap,
\* so no original line is duplicated.
C25_HeadMarkerTail ==
    SectionCut =>
        LET n == Len(trunc.text)
            floor == (n * trunc.max_tokens) \div estimate_tokens(trunc.text)
            k == IF floor < MinKeepLines THEN Min(MinKeepLines, n) ELSE floor
        IN HeadMarkerTail(trunc.first.text, trunc.text, <<>>, k, (7 * k) \div 10)

\* C25 (amended): with the lines and the estimate taken after every fenced
\* block has been replaced by its one-line placeholder, and k and the head
\* count as the double-precision products int(n * (target/estimated)) and
\* int(k * 0.7) give them, the result is the first int(k * 0.7) lines, the
\* marker element, then the last k - int(k * 0.7) lines, the blocks put
\* back; k <= n, the tail has at least one line, head and tail do not
\* overlap and no original line is duplicated.
C25_HeadMarkerTailAsComputed ==
    SectionCut =>
        LET kept == preserve_code_blocks(trunc.text, 0)
            n == Len(kept.text)
            ratio == IntOfRatio(n, trunc.max_tokens, estimate_tokens(kept.text))
            k == IF ratio < MinKeepLines THEN Min(MinKeepLines, n) ELSE ratio
        IN HeadMarkerTail(trunc.first.text, kept.text, kept.code_blocks, k,
                          IntOfSevenTenths(k))

\* C25 witness: a section of 22 lines without fences, estimated at 22
\* tokens, was cut to a target of 15: lines are left out and the marker
\* counts 8 of them.
C25_Witness ==
    /\ SectionCut
    /\ Len(trunc.text) = 22 /\ trunc.max_tokens = 15
    /\ \A i \in 1..Len(trunc.text) : trunc.text[i].kind = "text"
    /\ \E i \in 1..Len(trunc.first.text) :
          trunc.first.text[i].kind = "marker" /\ trunc.first.text[i].n = 8

\* truncate went through its section handling and returned a truncated text
TruncatedBySections == TruncCalled /\ trunc.first.flag

RECURSIVE JoinContents(_)
\* "\n".join of the contents of a list of sections: their lines in a row
JoinContents(sections) ==
    IF sections = <<>> THEN <<>>
    ELSE Head(sections).content \o JoinContents(Tail(sections))

\* C27: identify_sections returns at least one section for every text, and
\* every line is in exactly one section, in document order: the contents
\* joined with newlines are the input text; so truncate never takes its
\* no-sections branch (the cut at target_chars with "... [truncated]").
C27_SectionsCoverText ==
    TruncCalled =>
        LET found == identify_sections(trunc.text)
        IN /\ Len(found) >= 1
           /\ \A i \in 1..Len(found) : found[i].content # <<>>
           /\ JoinContents(found) = trunc.text
           /\ \A i \in 1..Len(trunc.first.text) :
                 ~(trunc.first.text[i].kind = "marker" /\ trunc.first.text[i].len = 15)

\* C27 witness: an over-budget text of several lines, none of them a
\* header, was truncated through its one default section.
C27_Witness ==
    /\ TruncatedBySections
    /\ Len(trunc.text) >= 2
    /\ \A i \in 1..Len(trunc.text) : ~IsHeader(trunc.text[i])
    /\ Len(trunc.first.kept) = 1
    /\ trunc.first.kept[1].section.name = "Introduction"

RECURSIVE KeptWhileBudget(_, _, _)
\* kept holds exactly the sections of others (the sections that are not
\* priority 1, in the order truncate reaches them) that were reached with a
\* remaining budget above 0, the budget going down by the estimate of each
\* kept content.
KeptWhileBudget(others, kept, remaining) ==
    IF others = <<>> THEN kept = <<>>
    ELSE IF remaining <= 0
         THEN kept = <<>>
         ELSE /\ kept # <<>>
              /\ Head(kept).section = Head(others).section
              /\ KeptWhileBudget(Tail(others), Tail(kept),
                                 remaining - estimate_tokens(Head(kept).content))

\* C28: during the budget distribution of truncate a section that is not
\* priority 1 is in the output only if the remaining budget was above 0
\* when it was reached; once the remaining budget is 0 or less every later
\* such section is omitted entirely: the output is the kept contents joined
\* by empty lines, with no header and no marker in an omitted section's
\* place.
C28_OmittedOnceBudgetSpent ==
    TruncatedBySections =>
        LET found == identify_sections(trunc.text)
            sorted == SortSections([i \in 1..Len(found) |->
                                       Entry(found[i], found[i].content, FALSE)], TRUE)
            kept == trunc.first.kept
        IN /\ KeptWhileBudget(SelectEntries(sorted, FALSE), SelectEntries(kept, FALSE),
                              TruncBudget - PreservedTokens(trunc.text))
           /\ Len(trunc.first.text)
                 = Len(JoinContents([i \in 1..Len(kept) |-> [content |-> kept[i].content]]))
                      + (IF kept = <<>> THEN 1 ELSE Len(kept) - 1)
           /\ Cardinality({i \in 1..Len(trunc.first.text) :
                              trunc.first.text[i].kind = "marker"})
                 = Cardinality({i \in 1..Len(kept) :
                                   kept[i].content # kept[i].section.content})

\* C28 witness: two sections that are not priority 1 and a positive budget:
\* the first one reached is kept and uses the budget up, the second one is
\* omitted.
C28_Witness ==
    /\ TruncatedBySections
    /\ TruncBudget > 0
    /\ Len(identify_sections(trunc.text)) = 2
    /\ PreservedOf(trunc.text) = {}
    /\ Len(trunc.first.kept) = 1
    /\ estimate_tokens(trunc.first.kept[1].content) >= TruncBudget

\* C29: the text parsed for the final verdict is the latest text block the
\* reasoning service sent in any iteration of the run, the empty text when
\* it sent none: the verdict, or the error of its constructor, is the one
\* that text gives.
C29_ParsedTextIsLatestBlock ==
    \A r \in SeqRuns :
        (pc[r] = "done" /\ outcome[r].path \in {"parsed", "fallback"}) =>
            /\ last_assistant_text[r] = emitted[r].text
            /\ outcome[r] = OnResultMessage(NotWritten, emitted[r].text, all_candidates[r])

\* C29 witness: the last iteration held a tool call alone, which found no
\* match, and the conversation ended at the turn limit: the text of an
\* earlier iteration was parsed into the verdict.
C29_Witness ==
    \E r \in SeqRuns :
        /\ pc[r] = "done"
        /\ outcome[r].kind = "verdict"
        /\ outcome[r].path = "parsed"
        /\ "cap" \in causes[r]
        /\ lastCall[r].made
        /\ emitted[r].any

\* C30: every verdict search_duplicates returns with is_duplicate = true has
\* status "duplicate" and a matched_report_id that is not empty, and every
\* verdict with status "new" has is_duplicate = false.
C30_VerdictCoherent ==
    \A r \in SeqRuns :
        outcome[r].kind = "verdict" =>
            /\ outcome[r].is_duplicate =>
                  /\ outcome[r].status = "duplicate"
                  /\ outcome[r].matched_report_id.t = "str"
                  /\ outcome[r].matched_report_id.s # ""
            /\ outcome[r].status = "new" => ~outcome[r].is_duplicate

====
